---- MODULE Spec2Model ----
(***************************************************************************)
(* A model of libcore/cast.rs: the unsafe casting functions (forget,       *)
(* transmute, transmute_copy, bump_box_refcount and the mutability and     *)
(* lifetime coercions) acting on owned values, on one shared               *)
(* reference-counted box and on borrowed references.                       *)
(*                                                                         *)
(*   Spec       the ownership machine: local values, one shared box, one   *)
(*              external counter decremented by a destructor               *)
(*   SpecBytes  transmute and transmute_copy on the bytes of typed values  *)
(*   SpecRefs   the reference coercions over a small memory                *)
(***************************************************************************)
EXTENDS Integers, Sequences, FiniteSets, TLC

VARIABLES
    stage,      \* the build configuration: 0 is cfg(stage0), 1 is stage1..3
    cell,       \* the shared box: [rc, st, frees, data]
    vals,       \* the values: slot -> [ty, st, bytes, reads]
    counter,    \* the external counter a guard's destructor decrements
    uaf,        \* a freed (or wild) box was touched: undefined behaviour
    pc,         \* position in test_bump_box_refcount, "off" once off-script
    bumped,     \* the run made the test's bump_box_refcount call
    bumps,      \* number of bump_box_refcount calls so far
    drops,      \* number of box handles destroyed so far
    last,       \* the last operation, its arguments and the machine before it
    val,        \* SpecBytes: the owned value [ty, bytes]
    orig,       \* SpecBytes: the value the run started from
    via,        \* SpecBytes: the types val was transmuted through
    sizeOk,     \* SpecBytes: every transmute so far kept the size
    out,        \* SpecBytes: the transmute_copy just made: [ty, bytes, reads, src]
    mem,        \* SpecRefs: the memory, address -> byte
    view,       \* SpecRefs: the current reference [bytes, mut, raw, lt]
    rlast       \* SpecRefs: the last operation: [op, arg, anchor, mem]

ownVars == <<stage, cell, vals, counter, uaf, pc, bumped, bumps, drops, last>>
byteVars == <<val, orig, via, sizeOk, out>>
refVars == <<mem, view, rlast>>
vars == <<ownVars, byteVars, refVars>>

(***************************************************************************)
(* Bounds of the model.                                                    *)
(***************************************************************************)
MaxSlots == 4          \* local slots 1..MaxSlots; slot 0 is a callee's parameter
MaxRc == 3             \* bump_box_refcount is not called at this count
MaxHops == 2           \* SpecBytes: transmutes in a row
MemSize == 2           \* SpecRefs: addresses 0..MemSize-1

Slots == 0..MaxSlots
Locals == 1..MaxSlots
Param == 0

(***************************************************************************)
(* Types, sizes and bytes.  A word (a handle, a pointer, a reference, a    *)
(* uint) is two bytes here, little-endian.                                 *)
(***************************************************************************)
Byte == {0, 1, 76}

WordTypes == {"box", "ptr", "uint", "ref"}

OwnTypes == {"box", "ptr"}

ByteTypes == {"u8", "str", "vec", "uint", "tri"}

SizeOf(ty) ==
    CASE ty \in WordTypes -> 2
      [] ty \in {"str", "vec"} -> 2
      [] ty \in {"u8", "guard"} -> 1
      [] ty = "tri" -> 3

EncodeUint(n) == <<n % 256, n \div 256>>

DecodeUint(bs) == bs[1] + 256 * bs[2]

\* the address of the shared box, as a handle or a raw pointer holds it
CellAddrBytes == <<16, 0>>

BoxData == <<98, 111, 120>>

Empty == [ty |-> "none", st |-> "empty", bytes |-> <<>>, reads |-> {}]

New(ty, bs) == [ty |-> ty, st |-> "live", bytes |-> bs, reads |-> {}]

\* the machine the operations act on
M == [cell |-> cell, vals |-> vals, counter |-> counter, uaf |-> uaf]

(***************************************************************************)
(* The data path: what the casts do to the bytes of a value.  adj is the   *)
(* memory that follows the value; it is read only when more bytes are      *)
(* asked for than the value has.                                           *)
(***************************************************************************)
Adjacent(bs, ty) ==
    IF SizeOf(ty) > Len(bs) THEN [1..(SizeOf(ty) - Len(bs)) -> Byte] ELSE {<<>>}

\* rusti::reinterpret_cast: the value at the address, loaded as a U
rusti_reinterpret_cast(bs, adj, U) ==
    [bytes |-> SubSeq(bs \o adj, 1, SizeOf(U)), reads |-> 1..SizeOf(U)]

\* rusti::transmute: the same bytes, typed U
rusti_transmute(bs, adj, U) ==
    [bytes |-> SubSeq(bs \o adj, 1, SizeOf(U)), reads |-> 1..SizeOf(U)]

\* unstable::intrinsics::init: a zeroed U
init(U) == [k \in 1..SizeOf(U) |-> 0]

\* unstable::intrinsics::memmove64(dest, src, n)
memmove64(dest, src, n) ==
    [bytes |-> [k \in 1..Len(dest) |-> IF k <= n THEN src[k] ELSE dest[k]],
     reads |-> 1..n]

\* a slip: one byte short, the last byte of the result left zero
reinterpret_cast_short(bs, adj, U) ==
    [bytes |-> [k \in 1..SizeOf(U) |->
                  IF k < SizeOf(U) THEN (bs \o adj)[k] ELSE 0],
     reads |-> 1..(SizeOf(U) - 1)]

reinterpret_cast(bs, adj, U) == rusti_reinterpret_cast(bs, adj, U)

transmute_copy_stage0(bs, adj, U) == rusti_reinterpret_cast(bs, adj, U)

\* a slip: the length of the source type, not of the destination
transmute_copy_src_len(bs, adj, U) ==
    LET dest == init(U)
    IN  memmove64(dest, bs \o adj, Len(bs))

transmute_copy_stage1(bs, adj, U) ==
    LET dest == init(U)
    IN  memmove64(dest, bs \o adj, SizeOf(U))

transmute_copy_bytes(bs, adj, U) ==
    IF stage = 0 THEN transmute_copy_stage0(bs, adj, U)
    ELSE transmute_copy_stage1(bs, adj, U)

(***************************************************************************)
(* Ownership.  Every operation maps a machine to the set of machines it    *)
(* may leave: one machine, or several where the behaviour is undefined.    *)
(***************************************************************************)
\* the handle in slot i points at the box and the box is allocated
Sound(m, i) == m.cell.st = "live" /\ m.vals[i].bytes = CellAddrBytes

\* a count found in freed or foreign memory
StaleCounts == 0..MaxRc

\* passing an @T by value copies the handle into the callee's parameter:
\* the count goes up by one
CopyArg(m, i) ==
    LET arg == New("box", m.vals[i].bytes)
    IN  IF Sound(m, i)
        THEN {[m EXCEPT !.cell.rc = @ + 1, !.vals[Param] = arg]}
        ELSE {[m EXCEPT !.uaf = TRUE, !.cell.rc = g + 1, !.vals[Param] = arg]
                : g \in StaleCounts}

\* the destructor of an @T: the count goes down by one, and the box is
\* deallocated when it reaches zero
DropBox(m, i) ==
    LET gone == [m EXCEPT !.vals[i].st = "dropped"]
    IN  IF Sound(m, i)
        THEN IF m.cell.rc - 1 = 0
             THEN {[gone EXCEPT !.cell = [rc |-> 0, st |-> "freed",
                                          frees |-> m.cell.frees + 1,
                                          data |-> <<>>]]}
             ELSE {[gone EXCEPT !.cell.rc = @ - 1]}
        ELSE {[gone EXCEPT !.uaf = TRUE, !.cell.rc = g - 1,
                           !.cell.frees = IF g - 1 = 0 THEN @ + 1 ELSE @]
                : g \in StaleCounts}

\* the destruction logic of the value in slot i
Drop(m, i) ==
    CASE m.vals[i].ty = "box" -> DropBox(m, i)
      [] m.vals[i].ty = "guard" ->
            {[m EXCEPT !.vals[i].st = "dropped", !.counter = @ - 1]}
      [] OTHER -> {[m EXCEPT !.vals[i].st = "dropped"]}

\* rusti::forget: the value is taken and no cleanup runs
rusti_forget(m, i) == {[m EXCEPT !.vals[i].st = "consumed"]}

\* a slip: the cleanup runs after all
forget_runs_dtor(m, i) == Drop(m, i)

forget(m, i) == rusti_forget(m, i)

\* a slip: the parameter goes out of scope instead of being forgotten
bump_box_refcount_drops(m, i) == UNION {Drop(x, Param) : x \in CopyArg(m, i)}

bump_box_refcount(m, i) == UNION {forget(x, Param) : x \in CopyArg(m, i)}

Made(ty, r) ==
    [ty |-> ty, st |-> "live", bytes |-> r.bytes, reads |-> r.reads]

\* a slip: thing goes out of scope instead of being forgotten
transmute_stage0_drops(m, i, j, G) ==
    UNION {LET newthing == reinterpret_cast(m.vals[i].bytes, adj, G)
               kept == [m EXCEPT !.vals[j] = Made(G, newthing)]
           IN  Drop(kept, i)
             : adj \in Adjacent(m.vals[i].bytes, G)}

transmute_stage0(m, i, j, G) ==
    UNION {LET newthing == reinterpret_cast(m.vals[i].bytes, adj, G)
               kept == [m EXCEPT !.vals[j] = Made(G, newthing)]
           IN  forget(kept, i)
             : adj \in Adjacent(m.vals[i].bytes, G)}

transmute_stage1(m, i, j, G) ==
    {LET r == rusti_transmute(m.vals[i].bytes, adj, G)
     IN  [m EXCEPT !.vals[j] = Made(G, r),
                   !.vals[i].st = "consumed"]
       : adj \in Adjacent(m.vals[i].bytes, G)}

transmute(m, i, j, G) ==
    IF stage = 0 THEN transmute_stage0(m, i, j, G)
    ELSE transmute_stage1(m, i, j, G)

\* a slip: the source is moved out
transmute_copy_moves(m, i, j, U) ==
    {LET r == transmute_copy_bytes(m.vals[i].bytes, adj, U)
     IN  [m EXCEPT !.vals[j] = Made(U, r), !.vals[i].st = "consumed"]
       : adj \in Adjacent(m.vals[i].bytes, U)}

\* a slip: the copy counts as a reference, as an ordinary copy of an @T does
transmute_copy_counts(m, i, j, U) ==
    {LET r == transmute_copy_bytes(m.vals[i].bytes, adj, U)
     IN  [m EXCEPT !.vals[j] = Made(U, r),
                   !.cell.rc = IF U = "box" THEN @ + 1 ELSE @]
       : adj \in Adjacent(m.vals[i].bytes, U)}

transmute_copy(m, i, j, U) ==
    {LET r == transmute_copy_bytes(m.vals[i].bytes, adj, U)
     IN  [m EXCEPT !.vals[j] = Made(U, r)]
       : adj \in Adjacent(m.vals[i].bytes, U)}

(***************************************************************************)
(* The ownership machine.                                                  *)
(***************************************************************************)
\* nothing is modelled past undefined behaviour
Live(i) == ~uaf /\ vals[i].st = "live"

FreeSlots == {j \in Locals : vals[j].st = "empty"}

\* a new local takes the lowest unused slot
Dest == CHOOSE j \in FreeSlots : \A k \in FreeSlots : j <= k

\* the types a cast of a handle or a raw pointer names
Targets == OwnTypes

\* test_bump_box_refcount, statement by statement; the box is local 1
NextPc(op, i, ty) ==
    CASE pc = "l178" /\ op = "bump_box_refcount" /\ i = 1 -> "l179"
      [] pc \in {"l178", "l179"} /\ op = "transmute" /\ i = 1 /\ ty = "ptr"
            -> "l180"
      [] pc = "l180" /\ op = "transmute_copy" /\ vals[i].ty = "ptr"
            /\ ty = "box" -> "l181"
      [] pc = "l181" /\ op = "transmute_copy" /\ vals[i].ty = "ptr"
            /\ ty = "box" -> "l182"
      [] pc = "l182" /\ op = "deref" -> "l182"
      [] pc = "l182" /\ op = "drop" /\ vals[i].ty = "box" -> "drop1"
      [] pc = "drop1" /\ op = "drop" /\ vals[i].ty = "box" -> "drop2"
      [] OTHER -> "off"

Record(op, i, j, ty, rd) ==
    /\ last' = [op |-> op, i |-> i, j |-> j, ty |-> ty, read |-> rd, pre |-> M]
    /\ pc' = NextPc(op, i, ty)
    /\ bumped' = (bumped \/ (pc = "l178" /\ pc' = "l179"))
    /\ UNCHANGED <<stage, byteVars, refVars>>

Becomes(x) ==
    /\ cell' = x.cell
    /\ vals' = x.vals
    /\ counter' = x.counter
    /\ uaf' = x.uaf

BumpBoxRefcount(i) ==
    /\ Live(i) /\ vals[i].ty = "box"
    /\ cell.rc < MaxRc
    /\ \E x \in bump_box_refcount(M, i) : Becomes(x)
    /\ bumps' = bumps + 1
    /\ UNCHANGED drops
    /\ Record("bump_box_refcount", i, Param, "box", <<>>)

Forget(i) ==
    /\ Live(i)
    /\ \E x \in forget(M, i) : Becomes(x)
    /\ UNCHANGED <<bumps, drops>>
    /\ Record("forget", i, i, vals[i].ty, <<>>)

Transmute(i, G) ==
    /\ Live(i) /\ vals[i].ty # "guard"
    /\ FreeSlots # {}
    /\ \E x \in transmute(M, i, Dest, G) : Becomes(x)
    /\ UNCHANGED <<bumps, drops>>
    /\ Record("transmute", i, Dest, G, <<>>)

TransmuteCopy(i, U) ==
    /\ Live(i) /\ vals[i].ty # "guard"
    /\ FreeSlots # {}
    /\ \E x \in transmute_copy(M, i, Dest, U) : Becomes(x)
    /\ UNCHANGED <<bumps, drops>>
    /\ Record("transmute_copy", i, Dest, U, <<>>)

\* a local goes out of scope
DropLocal(i) ==
    /\ Live(i)
    /\ \E x \in Drop(M, i) : Becomes(x)
    /\ drops' = IF vals[i].ty = "box" THEN drops + 1 ELSE drops
    /\ UNCHANGED bumps
    /\ Record("drop", i, i, vals[i].ty, <<>>)

\* *handle: the payload of the box is read
Deref(i) ==
    /\ Live(i) /\ vals[i].ty = "box"
    /\ UNCHANGED <<cell, vals, counter, bumps, drops>>
    /\ IF Sound(M, i)
       THEN uaf' = uaf /\ Record("deref", i, i, "box", cell.data)
       ELSE uaf' = TRUE /\ \E rd \in {<<>>, BoxData} : Record("deref", i, i, "box", rd)

NoOp == [op |-> "none", i |-> 0, j |-> 0, ty |-> "none", read |-> <<>>,
         pre |-> <<>>]

RefIdle ==
    /\ mem = <<>>
    /\ view = <<>>
    /\ rlast = <<>>

\* let box = @~"box box box"
InitBox ==
    /\ cell = [rc |-> 1, st |-> "live", frees |-> 0, data |-> BoxData]
    /\ vals = [s \in Slots |-> IF s = 1 THEN New("box", CellAddrBytes) ELSE Empty]
    /\ counter = 0
    /\ pc = "l178"

\* no box: two owned values whose destructor counts the counter down
InitGuard ==
    /\ cell = [rc |-> 0, st |-> "none", frees |-> 0, data |-> <<>>]
    /\ vals = [s \in Slots |-> IF s \in {1, 2} THEN New("guard", <<1>>) ELSE Empty]
    /\ counter = 2
    /\ pc = "off"

ByteIdle ==
    /\ val = <<>>
    /\ orig = <<>>
    /\ via = <<>>
    /\ sizeOk = TRUE
    /\ out = <<>>

Init ==
    /\ stage \in {0, 1}
    /\ InitBox \/ InitGuard
    /\ uaf = FALSE
    /\ bumped = FALSE
    /\ bumps = 0
    /\ drops = 0
    /\ last = NoOp
    /\ ByteIdle
    /\ RefIdle

Next ==
    \/ \E i \in Locals : BumpBoxRefcount(i)
    \/ \E i \in Locals : Forget(i)
    \/ \E i \in Locals : \E G \in Targets : Transmute(i, G)
    \/ \E i \in Locals : \E U \in Targets : TransmuteCopy(i, U)
    \/ \E i \in Locals : DropLocal(i)
    \/ \E i \in Locals : Deref(i)

Spec == Init /\ [][Next]_vars

(***************************************************************************)
(* Properties of the ownership machine.                                    *)
(***************************************************************************)
Pre == last.pre

LiveHandles(m) ==
    {s \in Locals : m.vals[s].ty = "box" /\ m.vals[s].st = "live"}

OthersKept(S) == \A s \in Slots \ S : vals[s] = Pre.vals[s]

\* C1: refcount symmetry.  Along test_bump_box_refcount (bump, transmute to a
\* raw pointer, two transmute_copy handles, both destroyed in either order)
\* the count is 2 until the first destruction, 1 after it and 0 after the
\* second; the box is deallocated exactly once, by the second destruction;
\* the count is never negative and no freed box is ever touched.
RefcountSymmetry ==
    (bumped /\ pc # "off") =>
        /\ ~uaf
        /\ cell.rc >= 0
        /\ pc \in {"l179", "l180", "l181", "l182"} =>
              cell.st = "live" /\ cell.rc = 2 /\ cell.frees = 0
        /\ pc = "drop1" =>
              /\ cell.st = "live" /\ cell.rc = 1 /\ cell.frees = 0
              /\ Cardinality(LiveHandles(M)) = 1
        /\ pc = "drop2" =>
              /\ cell.st = "freed" /\ cell.rc = 0 /\ cell.frees = 1
              /\ LiveHandles(M) = {}

RefcountSymmetryReached ==
    bumped /\ pc = "drop2" /\ cell.frees = 1 /\ last.op = "drop"

\* C2: without the bump the same sequence is a use after free.  The first
\* destruction takes the count to zero and deallocates the box while the
\* other handle is live; the second destruction then acts on the freed box.
NoBumpUseAfterFree ==
    (~bumped /\ pc \in {"drop1", "drop2"}) =>
        /\ pc = "drop1" =>
              /\ cell.st = "freed" /\ cell.rc = 0 /\ cell.frees = 1
              /\ ~uaf
              /\ Cardinality(LiveHandles(M)) = 1
        /\ pc = "drop2" =>
              /\ uaf
              /\ last.op = "drop"
              /\ Pre.cell.st = "freed"
              /\ Pre.vals[last.i].st = "live"

NoBumpUseAfterFreeReached ==
    ~bumped /\ pc = "drop2" /\ uaf /\ Pre.cell.st = "freed"

\* C3: bump_box_refcount on a handle of an allocated box with count >= 1
\* raises the count by exactly one and changes nothing else: payload,
\* allocation state, deallocation count, the external counter and every
\* local (the caller's handle included, which stays live) are as before,
\* and no destructor runs.
BumpRaisesCountByOne ==
    (last.op = "bump_box_refcount" /\ Sound(Pre, last.i) /\ Pre.cell.rc >= 1) =>
        /\ cell = [Pre.cell EXCEPT !.rc = Pre.cell.rc + 1]
        /\ cell.data = BoxData /\ cell.st = "live"
        /\ counter = Pre.counter
        /\ uaf = Pre.uaf
        /\ OthersKept({Param})
        /\ vals[last.i].st = "live"
        /\ vals[Param].st = "consumed"

BumpRaisesCountByOneReached ==
    /\ last.op = "bump_box_refcount"
    /\ Pre.cell.rc = 2 /\ cell.rc = 3
    /\ vals[last.i].st = "live"

\* C4: forget consumes the value and its destruction logic does not run,
\* in the call or ever after: the box, the external counter and the
\* value's bytes are as before the call, and the counter always counts the
\* guards that were not destroyed, the forgotten ones included.
ForgetSuppressesCleanup ==
    /\ last.op = "forget" =>
          /\ cell = Pre.cell
          /\ counter = Pre.counter
          /\ uaf = Pre.uaf
          /\ Pre.vals[last.i].st = "live"
          /\ vals[last.i] = [Pre.vals[last.i] EXCEPT !.st = "consumed"]
          /\ OthersKept({last.i})
    /\ counter = Cardinality({s \in Locals : /\ vals[s].ty = "guard"
                                              /\ vals[s].st # "dropped"})

ForgetSuppressesCleanupReached ==
    /\ last.op = "drop" /\ Pre.vals[last.i].ty = "guard"
    /\ \E s \in Locals : vals[s].ty = "guard" /\ vals[s].st = "consumed"
    /\ counter = 1

\* C5: transmute consumes its argument without running its destructor and
\* yields the argument's bytes under the new type; the stage0 definition
\* (reinterpret_cast, then forget) and the intrinsic one leave the same
\* machines.  A handle transmuted to a raw pointer leaves the count as it
\* was.
TransmuteIsCastThenForget ==
    /\ last.op = "transmute" =>
          /\ cell = Pre.cell
          /\ counter = Pre.counter
          /\ uaf = Pre.uaf
          /\ vals[last.i] = [Pre.vals[last.i] EXCEPT !.st = "consumed"]
          /\ vals[last.j].ty = last.ty /\ vals[last.j].st = "live"
          /\ vals[last.j].bytes = Pre.vals[last.i].bytes
          /\ OthersKept({last.i, last.j})
    /\ \A i \in Locals : \A G \in Targets :
          (Live(i) /\ vals[i].ty # "guard" /\ FreeSlots # {}) =>
              transmute_stage0(M, i, Dest, G) = transmute_stage1(M, i, Dest, G)

TransmuteIsCastThenForgetReached ==
    /\ last.op = "transmute" /\ last.ty = "ptr"
    /\ Pre.vals[last.i].ty = "box"
    /\ cell.rc = 2 /\ Pre.cell.rc = 2

\* C7: copy independence.  transmute_copy leaves its source as it was
\* (same bytes, still live, still owned, destroyed later exactly as it
\* would have been), changes neither the box nor the counter, and when it
\* makes a handle there is one more live handle for the same count.
CopyIndependence ==
    last.op = "transmute_copy" =>
        /\ vals[last.i] = Pre.vals[last.i]
        /\ vals[last.i].st = "live"
        /\ cell = Pre.cell
        /\ counter = Pre.counter
        /\ uaf = Pre.uaf
        /\ vals[last.j].ty = last.ty /\ vals[last.j].st = "live"
        /\ vals[last.j].bytes = vals[last.i].bytes
        /\ OthersKept({last.j})
        /\ {[c |-> y.cell, n |-> y.counter] : y \in Drop(M, last.i)}
              = {[c |-> y.cell, n |-> y.counter] : y \in Drop(Pre, last.i)}
        /\ last.ty = "box" =>
              Cardinality(LiveHandles(M)) = Cardinality(LiveHandles(Pre)) + 1

CopyIndependenceReached ==
    /\ last.op = "transmute_copy" /\ last.ty = "box"
    /\ Pre.vals[last.i].ty = "box"
    /\ cell.rc = 1 /\ Cardinality(LiveHandles(M)) = 2

\* C10: bump pairing.  As long as no freed box has been touched, after k
\* bumps and d destructions of handles the box is deallocated exactly when
\* d = 1 + k; with d < 1 + k it is allocated with count 1 + k - d > 0, so
\* with too many bumps for the handles destroyed it is never deallocated.
BumpPairing ==
    (~uaf /\ cell.st # "none") =>
        /\ drops <= 1 + bumps
        /\ (cell.st = "freed") <=> (drops = 1 + bumps)
        /\ cell.st = "freed" => cell.frees = 1 /\ cell.rc = 0
        /\ drops < 1 + bumps =>
              /\ cell.st = "live" /\ cell.frees = 0
              /\ cell.rc = 1 + bumps - drops
              /\ cell.rc > 0

BumpPairingReached ==
    ~uaf /\ bumps = 2 /\ drops = 3 /\ cell.st = "freed" /\ cell.frees = 1

(***************************************************************************)
(* SpecBytes: transmute and transmute_copy applied to one plain value.     *)
(***************************************************************************)
NoBox == [rc |-> 0, st |-> "none", frees |-> 0, data |-> <<>>]

\* the machine holding v as its only local
OneValue(v) ==
    [cell |-> NoBox,
     vals |-> [s \in Slots |-> IF s = 1 THEN New(v.ty, v.bytes) ELSE Empty],
     counter |-> 0, uaf |-> FALSE]

\* what transmute(v) : G may return
TransmuteValue(v, G) == {x.vals[2] : x \in transmute(OneValue(v), 1, 2, G)}

\* what transmute_copy(&v) : U may return
TransmuteCopyValue(v, U) ==
    {x.vals[2] : x \in transmute_copy(OneValue(v), 1, 2, U)}

\* a ~str in memory: its characters and the terminating zero
StrBytes(chars) == chars \o <<0>>

\* the elements of a ~[u8]
VecElems(bs) == bs

ValuesOf(ty) ==
    CASE ty = "str" -> {StrBytes(<<ch>>) : ch \in Byte \ {0}}
      [] OTHER -> [1..SizeOf(ty) -> Byte]

OwnIdle ==
    /\ cell = NoBox
    /\ vals = [s \in Slots |-> Empty]
    /\ counter = 0
    /\ uaf = FALSE
    /\ pc = "off"
    /\ bumped = FALSE
    /\ bumps = 0
    /\ drops = 0
    /\ last = NoOp

InitBytes ==
    /\ stage \in {0, 1}
    /\ orig \in UNION {[ty : {ty}, bytes : ValuesOf(ty)] : ty \in ByteTypes}
    /\ val = orig
    /\ via = <<>>
    /\ sizeOk = TRUE
    /\ out = <<>>
    /\ OwnIdle
    /\ RefIdle

ByteTransmute(G) ==
    /\ Len(via) < MaxHops
    /\ \E r \in TransmuteValue(val, G) : val' = [ty |-> r.ty, bytes |-> r.bytes]
    /\ via' = Append(via, G)
    /\ sizeOk' = (sizeOk /\ SizeOf(G) = SizeOf(val.ty))
    /\ out' = <<>>
    /\ UNCHANGED <<orig, ownVars, refVars>>

ByteTransmuteCopy(U) ==
    /\ \E r \in TransmuteCopyValue(val, U) :
         out' = [ty |-> r.ty, bytes |-> r.bytes, reads |-> r.reads, src |-> val]
    /\ UNCHANGED <<val, orig, via, sizeOk, ownVars, refVars>>

NextBytes ==
    \/ \E G \in ByteTypes : ByteTransmute(G)
    \/ \E U \in ByteTypes : ByteTransmuteCopy(U)

SpecBytes == InitBytes /\ [][NextBytes]_vars

\* C6: size-equality round trip.  While every transmute so far went to a
\* type of the same size, the value has exactly the bytes it started with,
\* in the same order, whatever the types passed through; back at the
\* original type it is the original value, and the string "L" seen as a
\* byte vector is [76, 0].
SizeEqualRoundTrip ==
    sizeOk =>
        /\ val.bytes = orig.bytes
        /\ SizeOf(val.ty) = SizeOf(orig.ty)
        /\ val.ty = orig.ty => val = orig
        /\ (orig = [ty |-> "str", bytes |-> StrBytes(<<76>>)] /\ val.ty = "vec")
              => VecElems(val.bytes) = <<76, 0>>

SizeEqualRoundTripReached ==
    /\ sizeOk /\ Len(via) = 2
    /\ orig = [ty |-> "str", bytes |-> StrBytes(<<76>>)]
    /\ via = <<"vec", "str">>
    /\ val = orig

\* C8: transmute_copy reads exactly size_of(U) bytes from the referent's
\* address.  With size_of(U) <= size_of(T) the result is the first
\* size_of(U) bytes of the source and nothing outside the source is read
\* (transmute_copy(&1) is 1); the read leaves the source exactly when
\* size_of(U) > size_of(T).
CopyReadsSizeOfU ==
    out # <<>> =>
        LET T == out.src.ty
            U == out.ty
            region == 1..SizeOf(T)
        IN  /\ out.reads = 1..SizeOf(U)
            /\ Len(out.bytes) = SizeOf(U)
            /\ SizeOf(U) <= SizeOf(T) =>
                  /\ out.bytes = SubSeq(out.src.bytes, 1, SizeOf(U))
                  /\ out.reads \subseteq region
            /\ (out.reads \ region # {}) <=> (SizeOf(U) > SizeOf(T))
            /\ (T = "uint" /\ U = "uint" /\ DecodeUint(out.src.bytes) = 1)
                  => DecodeUint(out.bytes) = 1

CopyReadsSizeOfUReached ==
    /\ out # <<>>
    /\ out.src = [ty |-> "uint", bytes |-> EncodeUint(1)]
    /\ out.ty = "uint" /\ DecodeUint(out.bytes) = 1
    /\ stage = 1

(***************************************************************************)
(* SpecRefs: the mutability and lifetime coercions.  A reference or raw    *)
(* pointer is the address it holds, with its static view: mut is "imm",    *)
(* "mut" or (raw pointers) "const"; lt is its lifetime.                    *)
(***************************************************************************)
Addr == 0..(MemSize - 1)

Lifetimes == {"a", "b"}

AddrOf(r) == DecodeUint(r.bytes)

\* transmute(ptr), with the static view the signature gives the result
Coerced(ptr, mut, lt) ==
    {[bytes |-> r.bytes, mut |-> mut, raw |-> ptr.raw, lt |-> lt]
       : r \in TransmuteValue([ty |-> "ref", bytes |-> ptr.bytes], "ref")}

transmute_mut(ptr) == Coerced(ptr, "mut", ptr.lt)

transmute_immut(ptr) == Coerced(ptr, "imm", ptr.lt)

transmute_region(ptr, b) == Coerced(ptr, ptr.mut, b)

transmute_mut_unsafe(ptr) == Coerced(ptr, "mut", ptr.lt)

transmute_immut_unsafe(ptr) == Coerced(ptr, "imm", ptr.lt)

transmute_mut_region(ptr, b) == Coerced(ptr, ptr.mut, b)

\* a slip: the anchor is returned, not the value
copy_lifetime_of_anchor(anchor, ptr) == transmute_region(anchor, anchor.lt)

copy_lifetime(anchor, ptr) == transmute_region(ptr, anchor.lt)

copy_lifetime_vec(anchor, ptr) == transmute_region(ptr, anchor.lt)

IsRef(r, mut) == ~r.raw /\ r.mut = mut

IsRaw(r, mut) == r.raw /\ r.mut = mut

NoRef == [bytes |-> <<>>, mut |-> "none", raw |-> FALSE, lt |-> "none"]

InitRefs ==
    /\ stage \in {0, 1}
    /\ mem = [a \in Addr |-> 0]
    /\ \E a \in Addr : \E lt \in Lifetimes :
         view = [bytes |-> EncodeUint(a), mut |-> "mut", raw |-> FALSE, lt |-> lt]
    /\ rlast = [op |-> "none", arg |-> NoRef, anchor |-> NoRef, mem |-> mem]
    /\ OwnIdle
    /\ ByteIdle

Did(op, v, anchor) ==
    /\ view' = v
    /\ rlast' = [op |-> op, arg |-> view, anchor |-> anchor, mem |-> mem]
    /\ UNCHANGED <<stage, ownVars, byteVars>>

\* &x, &mut x or a raw pointer to x
Borrow(a, mut, raw, lt) ==
    /\ raw <=> (mut = "const")
    /\ Did("borrow", [bytes |-> EncodeUint(a), mut |-> mut, raw |-> raw,
                      lt |-> IF raw THEN "none" ELSE lt], NoRef)
    /\ UNCHANGED mem

\* *view = b
Write(b) ==
    /\ view.mut = "mut"
    /\ AddrOf(view) \in Addr
    /\ mem' = [mem EXCEPT ![AddrOf(view)] = b]
    /\ Did("write", view, NoRef)

TransmuteMut ==
    /\ IsRef(view, "imm")
    /\ \E v \in transmute_mut(view) : Did("transmute_mut", v, NoRef)
    /\ UNCHANGED mem

TransmuteImmut ==
    /\ IsRef(view, "mut")
    /\ \E v \in transmute_immut(view) : Did("transmute_immut", v, NoRef)
    /\ UNCHANGED mem

TransmuteRegion(b) ==
    /\ IsRef(view, "imm")
    /\ \E v \in transmute_region(view, b) : Did("transmute_region", v, NoRef)
    /\ UNCHANGED mem

TransmuteMutUnsafe ==
    /\ IsRaw(view, "const")
    /\ \E v \in transmute_mut_unsafe(view) : Did("transmute_mut_unsafe", v, NoRef)
    /\ UNCHANGED mem

TransmuteImmutUnsafe ==
    /\ IsRaw(view, "const")
    /\ \E v \in transmute_immut_unsafe(view) :
         Did("transmute_immut_unsafe", v, NoRef)
    /\ UNCHANGED mem

TransmuteMutRegion(b) ==
    /\ IsRef(view, "mut")
    /\ \E v \in transmute_mut_region(view, b) :
         Did("transmute_mut_region", v, NoRef)
    /\ UNCHANGED mem

Anchors ==
    {[bytes |-> EncodeUint(a), mut |-> "imm", raw |-> FALSE, lt |-> lt]
       : a \in Addr, lt \in Lifetimes}

CopyLifetime(anchor) ==
    /\ IsRef(view, "imm")
    /\ \E v \in copy_lifetime(anchor, view) : Did("copy_lifetime", v, anchor)
    /\ UNCHANGED mem

CopyLifetimeVec(anchor) ==
    /\ IsRef(view, "imm")
    /\ \E v \in copy_lifetime_vec(anchor, view) :
         Did("copy_lifetime_vec", v, anchor)
    /\ UNCHANGED mem

NextRefs ==
    \/ \E a \in Addr : \E mut \in {"imm", "mut", "const"} :
         \E raw \in BOOLEAN : \E lt \in Lifetimes : Borrow(a, mut, raw, lt)
    \/ \E b \in Byte \ {0} : Write(b)
    \/ TransmuteMut
    \/ TransmuteImmut
    \/ \E b \in Lifetimes : TransmuteRegion(b)
    \/ TransmuteMutUnsafe
    \/ TransmuteImmutUnsafe
    \/ \E b \in Lifetimes : TransmuteMutRegion(b)
    \/ \E anchor \in Anchors : CopyLifetime(anchor)
    \/ \E anchor \in Anchors : CopyLifetimeVec(anchor)

SpecRefs == InitRefs /\ [][NextRefs]_vars

Coercions ==
    {"transmute_mut", "transmute_immut", "transmute_region",
     "transmute_mut_region", "transmute_mut_unsafe", "transmute_immut_unsafe"}

LifetimeCopies == {"copy_lifetime", "copy_lifetime_vec"}

\* C9: the coercions are the identity on address and bytes.  Each of the
\* six coercions returns the address it was given; copy_lifetime and
\* copy_lifetime_vec return the address of the value with the lifetime of
\* the anchor; none of them writes memory, so the byte read through the
\* returned view is the byte that was there under the old view.
CoercionsKeepAddress ==
    (rlast.op \in Coercions \cup LifetimeCopies) =>
        /\ view.bytes = rlast.arg.bytes
        /\ AddrOf(view) = AddrOf(rlast.arg)
        /\ view.raw = rlast.arg.raw
        /\ mem = rlast.mem
        /\ mem[AddrOf(view)] = rlast.mem[AddrOf(rlast.arg)]
        /\ rlast.op \in LifetimeCopies => view.lt = rlast.anchor.lt

CoercionsKeepAddressReached ==
    /\ rlast.op = "copy_lifetime"
    /\ AddrOf(rlast.anchor) # AddrOf(rlast.arg)
    /\ rlast.anchor.lt # rlast.arg.lt
    /\ mem[AddrOf(view)] = 76
    /\ mem[AddrOf(rlast.anchor)] # 76

====
